---- MODULE Spec2Model ----
(***************************************************************************)
(* btcbot3.py: a single-threaded trading loop that buys on a 1% dip and    *)
(* sells on a 5% pump relative to the last trade, and that seeds its state *)
(* at startup by scanning its own append-only log backwards.               *)
(*                                                                         *)
(* Prices are whole numbers; the float comparisons price <= P * 0.99 and   *)
(* price >= P * 1.05 are written as the exact integer comparisons          *)
(* price*100 <= P*99 and price*100 >= P*105, which agree with the float    *)
(* results on every value of Prices.  The text "${last_trade_price}"       *)
(* written to the log is repr(float), which float() reads back exactly, so *)
(* a log line carries the value itself; the text "None" is the value None, *)
(* on which float() raises.  Python's False is 0, as in Python.            *)
(***************************************************************************)
EXTENDS Integers, Sequences, FiniteSets, TLC

\* ---------------------------------------------------------------- bounds
\* Longest log the model lets the process write to.
MaxLogLen == 9
\* Longest log found on disk at the first start (specification SpecLog).
MaxInitLog == 2

\* ------------------------------------------------------------- constants
\* Python's None, Python's False (which is 0), and the outcome "the call
\* raised" of an external call.
None == -1
False == 0
Raises == -2
TRADE_AMOUNT_USDT == 20

\* Values the ticker can return (positive), chosen around the thresholds of
\* 50000: 49500 = 0.99 * 50000 and 52500 = 1.05 * 50000.
Prices == {49500, 49501, 50000, 52499, 52500}
\* Free quote balances (below and at the trade amount) and base balances.
UsdtBalances == {5, 20}
BtcBalances == {0, 1}
\* Outcome of one send_telegram_message call.
TgOutcomes == {"sent", "skipped", "error"}

VARIABLES
    pc,                \* position of the process
    last_trade_price,  \* module global, None or a price
    last_action,       \* module global, "buy", "sell" or "None"
    log,               \* btcbot3_run.log, a sequence of lines
    price,             \* the cycle's fetched price (None outside a cycle)
    requested,         \* executor the cycle's decision calls: "buy", "sell", "none"
    new_price,         \* the executor's return value (None before it returns)
    orders,            \* history: the market orders submitted, with the exchange's answer
    filled,            \* history: side of the order the exchange accepted in this cycle
    balance,           \* history: free balance the executor read in this cycle (None: none)
    notified,          \* history: outcome of the executor's notification ("none": not sent)
    last_completed     \* history: TradeState at the end of the last completed cycle

vars == <<pc, last_trade_price, last_action, log, price, requested, new_price,
          orders, filled, balance, notified, last_completed>>

\* ------------------------------------------------------------- log lines
Line(kind, ltp, action) ==
    [kind |-> kind, ltp |-> ltp, action |-> action]

\* A line without the "Last Trade:" and "Action:" fields.
Plain(kind) == Line(kind, None, "None")

\* f"Current Price: ${price:.2f}, Last Trade: ${last_trade_price}, Action: {last_action}"
\* The "Current Price" field stands before the "Last Trade:" marker, where
\* nothing reads it; the line carries the two fields after the marker.
StatusLine(ltp, action) == Line("status", ltp, action)

\* "Last Trade:" in line
HasLastTrade(line) == line.kind = "status"

\* "Action: buy" in line
HasActionBuy(line) == line.kind = "status" /\ line.action = "buy"

\* parts[1].split(",")[0].strip().replace('$', '')
price_part(line) == line.ltp

\* float(text): the number, or ValueError on the text "None"
float(text) ==
    IF text = None THEN [value |-> None, raised |-> TRUE]
    ELSE [value |-> text, raised |-> FALSE]

\* Faulty variant: the caller updates the state whatever the executor returned.
TruthyAlways(v) == TRUE

\* Python truthiness of a number, None or False
Truthy(v) == v # None /\ v # 0

\* ------------------------------------------------------- notification
\* Lines send_telegram_message appends: none when sent, a warning when the
\* credentials are missing, an error line when requests.post raises.  It
\* never raises.
send_telegram_message(tg) ==
    IF tg = "sent" THEN <<>>
    ELSE IF tg = "skipped" THEN <<Plain("telegram_skipped")>>
    ELSE <<Plain("telegram_error")>>

\* --------------------------------------------------------------- recovery
RECURSIVE ScanBack(_, _)
ScanBack(lines, i) ==
    IF i = 0 THEN [value |-> None, raised |-> FALSE]
    ELSE IF HasLastTrade(lines[i]) /\ HasActionBuy(lines[i])
         THEN float(price_part(lines[i]))
         ELSE ScanBack(lines, i - 1)

\* Faulty variant: the scan runs forward and returns the first buy entry.
RECURSIVE ScanForward(_, _)
ScanForward(lines, i) ==
    IF i > Len(lines) THEN [value |-> None, raised |-> FALSE]
    ELSE IF HasLastTrade(lines[i]) /\ HasActionBuy(lines[i])
         THEN float(price_part(lines[i]))
         ELSE ScanForward(lines, i + 1)

ScanFromFirst(lines) == ScanForward(lines, 1)

\* for line in reversed(lines): ...
ScanFrom(lines) == ScanBack(lines, Len(lines))

\* get_last_trade_price_from_log: value returned and whether the except
\* branch (warning line) ran.  readable = FALSE: open/readlines raised.
get_last_trade_price_from_log(lines, readable) ==
    IF ~readable THEN [value |-> None, raised |-> TRUE]
    ELSE ScanFrom(lines)

\* Faulty variant: startup assumes a buy whatever recovery returned.
RecoveredActionAlwaysBuy(p) == "buy"

\* last_action = "buy" if last_trade_price else None
RecoveredAction(p) == IF Truthy(p) THEN "buy" ELSE "None"

\* logging.info notice after recovery
RecoveryNotice(p) ==
    IF Truthy(p) THEN Plain("recovered") ELSE Plain("no_previous_trade")

\* ---------------------------------------------------------------- decision
\* Faulty variant: the dip threshold excludes the boundary.
BuyTriggerStrict(p, ltp) == p * 100 < ltp * 99

\* price <= last_trade_price * 0.99
BuyTrigger(p, ltp) == p * 100 <= ltp * 99

\* Faulty variant: the pump threshold excludes the boundary.
SellTriggerStrict(p, ltp) == p * 100 > ltp * 105

\* price >= last_trade_price * 1.05
SellTrigger(p, ltp) == p * 100 >= ltp * 105

\* Faulty variant: the thresholds are compared without their margins
\* (price <= last_trade_price, price >= last_trade_price).
DecideWithoutMargin(action, ltp, p) ==
    IF action = "sell" \/ action = "None"
    THEN (IF ltp = None \/ p <= ltp THEN "buy" ELSE "none")
    ELSE IF action = "buy"
         THEN (IF p >= ltp THEN "sell" ELSE "none")
         ELSE "none"

\* The branch the main loop takes: the executor it calls, or "none".
Decide(action, ltp, p) ==
    IF action = "sell" \/ action = "None"
    THEN (IF ltp = None \/ BuyTrigger(p, ltp) THEN "buy" ELSE "none")
    ELSE IF action = "buy"
         THEN (IF SellTrigger(p, ltp) THEN "sell" ELSE "none")
         ELSE "none"

\* --------------------------------------------------------------- executors
\* What one executor call did: its return value, the lines it logged, whether
\* it submitted an order and whether the exchange accepted it, the free
\* balance it read (None when the read raised) and the outcome of its
\* send_telegram_message call ("none" when it made none).
Result(ret, lines, submitted, accepted, bal, tg) ==
    [ret |-> ret, lines |-> lines, submitted |-> submitted, accepted |-> accepted,
     balance |-> bal, notified |-> tg]

\* except Exception in execute_buy
buy_except(tg, submitted, accepted, bal) ==
    Result(False, <<Plain("buy_error")>> \o send_telegram_message(tg),
           submitted, accepted, bal, tg)

\* Faulty variant: a failing notification at line 123 raises into the except
\* branch of execute_buy, which returns False after the order was placed.
execute_buy_notify_raises(usdt, p, order_ok, tg) ==
    IF usdt = Raises THEN buy_except(tg, FALSE, FALSE, None)
    ELSE IF usdt < TRADE_AMOUNT_USDT
         THEN Result(False, <<Plain("insufficient_usdt")>>, FALSE, FALSE, usdt, "none")
    ELSE IF p = Raises THEN buy_except(tg, FALSE, FALSE, usdt)
    ELSE IF ~order_ok THEN buy_except(tg, TRUE, FALSE, usdt)
    ELSE IF tg = "error"
         THEN Result(False, <<Plain("bought"), Plain("buy_error")>>, TRUE, TRUE,
                     usdt, tg)
    ELSE Result(p, <<Plain("bought")>> \o send_telegram_message(tg), TRUE, TRUE,
                usdt, tg)

\* Faulty variant: execute_buy without the balance check of line 113.
execute_buy_unchecked(usdt, p, order_ok, tg) ==
    IF usdt = Raises THEN buy_except(tg, FALSE, FALSE, None)
    ELSE IF p = Raises THEN buy_except(tg, FALSE, FALSE, usdt)
    ELSE IF ~order_ok THEN buy_except(tg, TRUE, FALSE, usdt)
    ELSE Result(p, <<Plain("bought")>> \o send_telegram_message(tg), TRUE, TRUE,
                usdt, tg)

\* execute_buy with the outcomes of its external calls: usdt is the free
\* quote balance or Raises, p the price or Raises, order_ok whether
\* order_market_buy returned.
execute_buy(usdt, p, order_ok, tg) ==
    IF usdt = Raises THEN buy_except(tg, FALSE, FALSE, None)
    ELSE IF usdt < TRADE_AMOUNT_USDT
         THEN Result(False, <<Plain("insufficient_usdt")>>, FALSE, FALSE, usdt, "none")
    ELSE IF p = Raises THEN buy_except(tg, FALSE, FALSE, usdt)
    ELSE IF ~order_ok THEN buy_except(tg, TRUE, FALSE, usdt)
    ELSE Result(p, <<Plain("bought")>> \o send_telegram_message(tg), TRUE, TRUE,
                usdt, tg)

\* except Exception in execute_sell
sell_except(tg, submitted, accepted, bal) ==
    Result(False, <<Plain("sell_error")>> \o send_telegram_message(tg),
           submitted, accepted, bal, tg)

\* execute_sell: the order is placed before the price is fetched.
execute_sell(btc, order_ok, p, tg) ==
    IF btc = Raises THEN sell_except(tg, FALSE, FALSE, None)
    ELSE IF btc <= 0
         THEN Result(False, <<Plain("no_btc")>>, FALSE, FALSE, btc, "none")
    ELSE IF ~order_ok THEN sell_except(tg, TRUE, FALSE, btc)
    ELSE IF p = Raises THEN sell_except(tg, TRUE, TRUE, btc)
    ELSE Result(p, <<Plain("sold")>> \o send_telegram_message(tg), TRUE, TRUE,
                btc, tg)

\* ------------------------------------------------------------------ loop
\* Faulty variant: the main loop has no except branch, the error ends the process.
main_loop_no_except == "crashed"

\* except Exception in the main loop: log, notify, sleep, next cycle.
main_loop_except_pc == "loop"

\* Lines one cycle appends at most: executor line, telegram line, status.
CycleLines == 3

\* -------------------------------------------------------------- initial
InitProcess ==
    /\ pc = "boot"
    /\ last_trade_price = None
    /\ last_action = "None"
    /\ price = None
    /\ requested = "none"
    /\ new_price = None
    /\ orders = <<>>
    /\ filled = "none"
    /\ balance = None
    /\ notified = "none"
    /\ last_completed = [ltp |-> None, action |-> "None"]

\* First start of a fresh installation: the log is empty.
Init == InitProcess /\ log = <<>>

\* Lines a log file found on disk at the first start may hold, whoever wrote
\* them: status lines with a price, the price 0.0 or the text None, and a
\* line without the markers.
InputLines ==
    {StatusLine(v, a) : v \in {None, 0, 50000}, a \in {"buy", "sell"}}
    \cup {Plain("started")}

InputLogs == UNION {[1..n -> InputLines] : n \in 0..MaxInitLog}

\* First start over an existing log file.
InitLog == InitProcess /\ log \in InputLogs

\* --------------------------------------------------------------- actions
\* Module level, lines 78-94 and 159: the step-size query (uncaught), the
\* recovery scan, the notice and the banner.
Startup ==
    /\ pc = "boot"
    /\ \E step_ok \in BOOLEAN, readable \in BOOLEAN :
         IF ~step_ok
         THEN /\ pc' = "crashed"
              /\ UNCHANGED <<last_trade_price, last_action, log, price, requested,
                             new_price, orders, filled, balance, notified,
                             last_completed>>
         ELSE LET r == get_last_trade_price_from_log(log, readable) IN
              /\ last_trade_price' = r.value
              /\ last_action' = RecoveredAction(r.value)
              /\ log' = log
                        \o (IF r.raised THEN <<Plain("recovery_warning")>> ELSE <<>>)
                        \o <<RecoveryNotice(r.value), Plain("started")>>
              /\ Len(log') <= MaxLogLen
              /\ pc' = "loop"
              /\ UNCHANGED <<price, requested, new_price, orders, filled,
                             balance, notified, last_completed>>

\* Lines 163-168 / 174-176: the snapshot and the decision.  A fetch that
\* raises leaves the try block for the except branch.
BeginCycle ==
    /\ pc = "loop"
    /\ \E p \in Prices \cup {Raises}, bal_ok \in BOOLEAN :
         IF p = Raises \/ ~bal_ok
         THEN /\ Len(log) + 1 <= MaxLogLen
              /\ pc' = "except"
              /\ UNCHANGED <<last_trade_price, last_action, log, price, requested,
                             new_price, orders, filled, balance, notified,
                             last_completed>>
         ELSE /\ Len(log) + CycleLines <= MaxLogLen
              /\ price' = p
              /\ requested' = Decide(last_action, last_trade_price, p)
              /\ pc' = IF requested' = "buy" THEN "execute_buy"
                       ELSE IF requested' = "sell" THEN "execute_sell"
                       ELSE "finish"
              /\ UNCHANGED <<last_trade_price, last_action, log, new_price, orders,
                             filled, balance, notified, last_completed>>

\* Lines 185-188: the error line, the failure notification and the sleep.
MainLoopExcept ==
    /\ pc = "except"
    /\ \E tg \in TgOutcomes :
         /\ log' = log \o <<Plain("main_loop_error")>> \o send_telegram_message(tg)
         /\ Len(log') <= MaxLogLen
    /\ pc' = main_loop_except_pc
    /\ UNCHANGED <<last_trade_price, last_action, price, requested, new_price,
                   orders, filled, balance, notified, last_completed>>

Executed(r, side) ==
    /\ new_price' = r.ret
    /\ log' = log \o r.lines
    /\ orders' = IF r.submitted
                 THEN Append(orders, [side |-> side, accepted |-> r.accepted,
                                      balance |-> r.balance])
                 ELSE orders
    /\ filled' = IF r.accepted THEN side ELSE "none"
    /\ balance' = r.balance
    /\ notified' = r.notified
    /\ pc' = "finish"
    /\ UNCHANGED <<last_trade_price, last_action, price, requested,
                   last_completed>>

\* Line 169: new_price = execute_buy()
ExecuteBuy ==
    /\ pc = "execute_buy"
    /\ \E usdt \in UsdtBalances \cup {Raises}, p \in Prices \cup {Raises},
          order_ok \in BOOLEAN, tg \in TgOutcomes :
         Executed(execute_buy(usdt, p, order_ok, tg), "buy")

\* Line 177: new_price = execute_sell()
ExecuteSell ==
    /\ pc = "execute_sell"
    /\ \E btc \in BtcBalances \cup {Raises}, p \in Prices \cup {Raises},
          order_ok \in BOOLEAN, tg \in TgOutcomes :
         Executed(execute_sell(btc, order_ok, p, tg), "sell")

\* Lines 170-172 / 178-180 and 182-183: the state update, the status line
\* and the sleep.
\* Faulty variant: the loop records a requested trade as done even when the
\* executor returned False, so the trade is not requested again.
FinishCycleGivesUp ==
    /\ pc = "finish"
    /\ IF requested # "none"
       THEN /\ last_trade_price' = IF Truthy(new_price) THEN new_price ELSE price
            /\ last_action' = requested
       ELSE UNCHANGED <<last_trade_price, last_action>>
    /\ log' = Append(log, StatusLine(last_trade_price', last_action'))
    /\ last_completed' = [ltp |-> last_trade_price', action |-> last_action']
    /\ pc' = "loop"
    /\ price' = None
    /\ requested' = "none"
    /\ new_price' = None
    /\ filled' = "none"
    /\ balance' = None
    /\ notified' = "none"
    /\ UNCHANGED orders

\* Faulty variant: the status line is written with the values the two
\* globals had before the cycle's update.
FinishCycleStaleStatus ==
    /\ pc = "finish"
    /\ IF requested # "none" /\ Truthy(new_price)
       THEN /\ last_trade_price' = new_price
            /\ last_action' = requested
       ELSE UNCHANGED <<last_trade_price, last_action>>
    /\ log' = Append(log, StatusLine(last_trade_price, last_action))
    /\ last_completed' = [ltp |-> last_trade_price', action |-> last_action']
    /\ pc' = "loop"
    /\ price' = None
    /\ requested' = "none"
    /\ new_price' = None
    /\ filled' = "none"
    /\ balance' = None
    /\ notified' = "none"
    /\ UNCHANGED orders

FinishCycle ==
    /\ pc = "finish"
    /\ IF requested # "none" /\ Truthy(new_price)
       THEN /\ last_trade_price' = new_price
            /\ last_action' = requested
       ELSE UNCHANGED <<last_trade_price, last_action>>
    /\ log' = Append(log, StatusLine(last_trade_price', last_action'))
    /\ last_completed' = [ltp |-> last_trade_price', action |-> last_action']
    /\ pc' = "loop"
    /\ price' = None
    /\ requested' = "none"
    /\ new_price' = None
    /\ filled' = "none"
    /\ balance' = None
    /\ notified' = "none"
    /\ UNCHANGED orders

\* Faulty variant: the restarted script opens its log file for writing
\* instead of appending, which empties it.
KillTruncatesLog ==
    /\ pc # "boot"
    /\ pc' = "boot"
    /\ last_trade_price' = None
    /\ last_action' = "None"
    /\ price' = None
    /\ requested' = "none"
    /\ new_price' = None
    /\ filled' = "none"
    /\ balance' = None
    /\ notified' = "none"
    /\ log' = <<>>
    /\ UNCHANGED <<orders, last_completed>>

\* External termination followed by a restart of the script: the globals
\* are gone, the log file stays.
Kill ==
    /\ pc # "boot"
    /\ pc' = "boot"
    /\ last_trade_price' = None
    /\ last_action' = "None"
    /\ price' = None
    /\ requested' = "none"
    /\ new_price' = None
    /\ filled' = "none"
    /\ balance' = None
    /\ notified' = "none"
    /\ UNCHANGED <<log, orders, last_completed>>

Next ==
    \/ Startup
    \/ BeginCycle
    \/ MainLoopExcept
    \/ ExecuteBuy
    \/ ExecuteSell
    \/ FinishCycle
    \/ Kill

\* The program on a fresh installation, with external termination and restart.
Spec == Init /\ [][Next]_vars

\* The program started over a log file that already exists.
SpecLog == InitLog /\ [][Next]_vars

\* The process left alone: no external termination, and every external call
\* returns or raises, so a step that can be taken is eventually taken.
Step ==
    \/ Startup
    \/ BeginCycle
    \/ MainLoopExcept
    \/ ExecuteBuy
    \/ ExecuteSell
    \/ FinishCycle

LiveSpec == Init /\ [][Step]_vars /\ WF_vars(Step)

\* ================================================================ claims
\* The cycle has its snapshot (price and balances fetched) and has decided.
InCycle == pc \in {"execute_buy", "execute_sell", "finish"}

\* C1: in a cycle that starts with lastAction = Buy and lastTradePrice = P the
\* loop calls execute_sell iff the fetched price is >= 1.05 * P (at P = 50000:
\* 52500 yes, 52499 no), and it calls execute_sell in no other cycle.  Until
\* FinishCycle the two globals are those of the start of the cycle.
C1_SellIffPump ==
    /\ (requested = "sell") <=>
           (InCycle /\ last_action = "buy" /\ price * 100 >= last_trade_price * 105)
    /\ (pc = "execute_sell") => (requested = "sell")
    /\ (InCycle /\ last_action = "buy" /\ last_trade_price = 50000 /\ price = 52500)
           => requested = "sell"
    /\ (InCycle /\ last_action = "buy" /\ last_trade_price = 50000 /\ price = 52499)
           => requested = "none"

C1_Witness ==
    /\ pc = "execute_sell"
    /\ last_action = "buy"
    /\ last_trade_price = 50000
    /\ price = 52500

\* C2: in a cycle that starts with lastAction in {Sell, None} the loop calls
\* execute_buy iff lastTradePrice is None or the fetched price is
\* <= 0.99 * lastTradePrice, and it calls execute_buy in no cycle that starts
\* with lastAction = Buy.
C2_BuyIffDip ==
    /\ (requested = "buy") <=>
           (/\ InCycle
            /\ last_action \in {"sell", "None"}
            /\ (last_trade_price = None \/ price * 100 <= last_trade_price * 99))
    /\ (pc = "execute_buy") => (requested = "buy")

C2_Witness ==
    /\ pc = "execute_buy"
    /\ last_action = "sell"
    /\ last_trade_price = 50000
    /\ price = 49500

\* C3: the two globals change only in the step that ends a cycle whose
\* executor returned a price; when the executor returned False, and in a
\* cycle that aborts, both are left as they were.  (Startup seeds them and
\* external termination discards them.)
C3_ChangeOnlyOnSuccess ==
    [][(last_trade_price' # last_trade_price \/ last_action' # last_action)
         => \/ pc = "boot"
            \/ pc' = "boot"
            \/ (pc = "finish" /\ requested # "none" /\ new_price \in Prices)]_vars

\* A sell failed while holding and the cycle ended with the state it began with.
C3_Witness ==
    /\ pc = "loop"
    /\ Len(log) >= 2
    /\ log[Len(log) - 1].kind = "sell_error"
    /\ log[Len(log)] = StatusLine(last_trade_price, "buy")
    /\ last_action = "buy"

\* C4: every order the exchange accepted is followed, at the end of the same
\* cycle, by the update lastTradePrice := returned price, lastAction := side.
C4_AcceptedOrderUpdatesState ==
    [][(pc = "finish" /\ pc' = "loop" /\ filled # "none")
         => (/\ new_price \in Prices
             /\ last_trade_price' = new_price
             /\ last_action' = filled)]_vars

\* C5: whenever startup reads the log back, the state it seeds equals the
\* state held at the end of the last completed cycle.
C5_RestartResumesState ==
    [][(pc = "boot" /\ pc' = "loop"
          /\ log'[Len(log) + 1].kind # "recovery_warning")
         => (/\ last_trade_price' = last_completed.ltp
             /\ last_action' = last_completed.action)]_vars

\* Positions of the log's entries whose action is buy.
BuyEntries(lines) ==
    {i \in 1..Len(lines) : lines[i].kind = "status" /\ lines[i].action = "buy"}

MostRecentBuy(lines) ==
    CHOOSE i \in BuyEntries(lines) : \A j \in BuyEntries(lines) : j <= i

\* C6: on every log the program has written, the recovery scan returns the
\* price of the most recent entry whose action is buy, whatever was written
\* after it (None when there is no such entry).
C6_ScanReturnsLastBuy ==
    LET r == get_last_trade_price_from_log(log, TRUE) IN
    /\ ~r.raised
    /\ IF BuyEntries(log) = {} THEN r.value = None
       ELSE r.value = log[MostRecentBuy(log)].ltp

\* Two buys at different prices with a sell between them, and entries written
\* after the last buy.
C6_Witness ==
    \E i, j, k \in 1..Len(log) :
        /\ i < j /\ j < k /\ k < Len(log)
        /\ log[Len(log)].kind = "main_loop_error"
        /\ log[i].kind = "status" /\ log[i].action = "buy"
        /\ log[j].kind = "status" /\ log[j].action = "sell"
        /\ k = MostRecentBuy(log)
        /\ log[k].ltp # log[i].ltp
        /\ log[k].ltp # log[j].ltp
        /\ ScanFrom(log).value = log[k].ltp

\* Orders the exchange accepted, in order.
Accepted == SelectSeq(orders, LAMBDA o : o.accepted)

\* C7: the market orders placed at the exchange alternate sides: no two
\* consecutive ones are on the same side.
C7_OrdersAlternate ==
    \A i \in 1..(Len(Accepted) - 1) : Accepted[i].side # Accepted[i + 1].side

\* The process is inside the while loop.
InLoop == pc \in {"loop", "except", "execute_buy", "execute_sell", "finish"}

\* C8: an error inside a cycle never ends the process: whatever fails, the
\* cycle comes back to the loop head, and from the loop head a next cycle is
\* started (as long as the modelled log has room for one).
C8_NextCycleStarts ==
    /\ [][InLoop => pc' # "crashed"]_vars
    /\ [](InLoop => <>(pc = "loop"))
    /\ [](pc = "loop" /\ Len(log) + CycleLines <= MaxLogLen => <>(pc # "loop"))

\* A cycle aborted with an error and the process is back at the loop head.
C8_Witness ==
    /\ pc = "loop"
    /\ \E i \in 1..Len(log) : log[i].kind = "main_loop_error"
    /\ \E i \in 1..Len(log) : log[i].kind = "sell_error"

\* C9: no failure of an external call, startup included, terminates the
\* process.
C9_NoErrorFatal == pc # "crashed"

\* C10: lastAction = None iff lastTradePrice = None, from startup recovery on.
C10_NoneIffNone == (last_action = "None") <=> (last_trade_price = None)

\* The executor read a balance and its pre-flight check failed.
PreflightFailed ==
    \/ requested = "buy" /\ balance # None /\ balance < TRADE_AMOUNT_USDT
    \/ requested = "sell" /\ balance # None /\ balance <= 0

\* C11: an order is submitted only after the balance check of the same
\* executor call passed (buy: free quote balance >= 20, sell: free base
\* balance > 0); when the check fails the executor returns False without an
\* order call and without a notification, and the cycle ends with the two
\* globals unchanged.
C11_OrderOnlyAfterBalanceCheck ==
    /\ [](\A i \in 1..Len(orders) :
            /\ orders[i].side = "buy" => orders[i].balance >= TRADE_AMOUNT_USDT
            /\ orders[i].side = "sell" => orders[i].balance > 0)
    /\ [][(pc \in {"execute_buy", "execute_sell"} /\ pc' = "finish"
             /\ PreflightFailed')
            => (new_price' = False /\ orders' = orders /\ notified' = "none")]_vars
    /\ [][(pc = "finish" /\ pc' = "loop" /\ PreflightFailed)
            => (last_trade_price' = last_trade_price
                /\ last_action' = last_action)]_vars

\* execute_buy read a quote balance of 5 and returned False.
C11_Witness ==
    /\ pc = "finish"
    /\ requested = "buy"
    /\ balance = 5
    /\ new_price = False
    /\ notified = "none"

\* Positions of the buy entries whose price field float() can read.
WellFormedBuys(lines) == {i \in BuyEntries(lines) : lines[i].ltp # None}

LastWellFormedBuy(lines) ==
    CHOOSE i \in WellFormedBuys(lines) : \A j \in WellFormedBuys(lines) : j <= i

\* C12: when the most recent line with both markers has a price field that
\* cannot be parsed, the scan skips it and returns the price of the next
\* older well-formed buy entry.
C12_MalformedBuySkipped ==
    (/\ BuyEntries(log) # {}
     /\ log[MostRecentBuy(log)].ltp = None
     /\ WellFormedBuys(log) # {})
        => get_last_trade_price_from_log(log, TRUE).value
               = log[LastWellFormedBuy(log)].ltp

\* C13: when the log cannot be read or holds no buy entry (an absent log is
\* an empty one), recovery returns None without raising: startup seeds
\* (None, None) and enters the loop, and every cycle that has its snapshot
\* in that state requests a buy, whatever the price.
C13_FreshStartWithoutBuyEntry ==
    /\ [][(pc = "boot" /\ pc' = "loop"
             /\ (BuyEntries(log) = {}
                 \/ log'[Len(log) + 1].kind = "recovery_warning"))
            => (last_trade_price' = None /\ last_action' = "None")]_vars
    /\ []((InCycle /\ last_trade_price = None /\ last_action = "None")
            => requested = "buy")

\* Started over a log that holds status lines but no buy entry, and buying.
C13_Witness ==
    /\ pc = "execute_buy"
    /\ last_trade_price = None
    /\ BuyEntries(log) = {}
    /\ Len(log) >= 1
    /\ log[1].kind = "status"

\* What a recovery scan of the log returns when the file can be read.
Recovery(lines) == get_last_trade_price_from_log(lines, TRUE)

\* C14: nothing but the status line of a completed cycle changes what the
\* recovery scan returns: not the warning, notice and banner that startup
\* appends, nor a restart, nor the lines of an unfinished cycle; and a startup
\* that reads the log seeds exactly what the scan returns.  So consecutive
\* restarts with no completed cycle between them recover the same state.
C14_RestartsRecoverSame ==
    /\ [][~(pc = "finish" /\ pc' = "loop") => Recovery(log') = Recovery(log)]_vars
    /\ [][(pc = "boot" /\ pc' = "loop"
             /\ log'[Len(log) + 1].kind # "recovery_warning")
            => (/\ last_trade_price' = Recovery(log).value
                /\ last_trade_price' = Recovery(log').value)]_vars

\* Two startups in a row, both recovering the buy of the log.
C14_Witness ==
    /\ pc = "loop"
    /\ last_action = "buy"
    /\ \E i \in 1..Len(log) :
           /\ i + 3 <= Len(log)
           /\ log[i].kind = "recovered"
           /\ log[i + 1].kind = "started"
           /\ log[i + 2].kind = "recovered"
           /\ log[i + 3].kind = "started"

\* The executor of this cycle logged its success line "Sold ...".
SoldLogged ==
    \E i \in 1..Len(log) : i + 2 >= Len(log) /\ log[i].kind = "sold"

\* The executor's notification was attempted and did not go out.
NotifyFailed == notified \in {"error", "skipped"}

\* C15: a notification that fails changes nothing for its caller: a buy
\* order that was accepted, and a sell that reached its success line, still
\* return their price and the cycle still updates the two globals; and the
\* except branch of the main loop goes back to the loop head whatever its
\* own notification does.
C15_NotifyFailureSwallowed ==
    /\ []((pc = "finish" /\ NotifyFailed /\ filled = "buy")
            => new_price \in Prices)
    /\ []((pc = "finish" /\ NotifyFailed /\ filled = "sell" /\ SoldLogged)
            => new_price \in Prices)
    /\ [][(pc = "finish" /\ pc' = "loop" /\ NotifyFailed
             /\ (filled = "buy" \/ (filled = "sell" /\ SoldLogged)))
            => (last_trade_price' = new_price /\ last_action' = filled)]_vars
    /\ [][(pc = "except" /\ pc' # "boot") => pc' = "loop"]_vars

\* A buy whose notification raised, and the cycle recorded the buy.
C15_Witness ==
    /\ pc = "loop"
    /\ last_action = "buy"
    /\ Len(log) >= 3
    /\ log[Len(log) - 2].kind = "bought"
    /\ log[Len(log) - 1].kind = "telegram_error"
    /\ log[Len(log)] = StatusLine(last_trade_price, "buy")

\* This run of the script has a failed execution, told by one of the lines
\* in failures, that no later success line (or restart) has followed.
PendingRetry(failures, success) ==
    \E i \in 1..Len(log) :
        /\ log[i].kind \in failures
        /\ \A j \in (i + 1)..Len(log) : log[j].kind \notin {success, "started"}

\* The modelled log has room for one more complete cycle.
RoomForCycle == Len(log) + CycleLines <= MaxLogLen

\* The cycle in progress does not end in a transition: it aborted, its price
\* is not a trigger, or its executor returned False.
CycleWithoutTrade(side) ==
    \/ pc = "except"
    \/ InCycle /\ requested # side
    \/ pc = "finish" /\ ~Truthy(new_price)

\* C16: within one run, after a failed sell the script is still holding and
\* every later cycle whose price meets the sell trigger requests the sell
\* again, and likewise for a failed buy; and from the loop head the state makes the transition unless a cycle
\* aborts, sees a price that is not a trigger, or has its executor return
\* False: once cycles stop failing while the trigger holds, the transition
\* happens (as long as the modelled log has room for the cycle).
C16_RetryForever ==
    /\ []((InCycle /\ PendingRetry({"sell_error", "no_btc"}, "sold"))
            => /\ last_action = "buy"
               /\ SellTrigger(price, last_trade_price) => requested = "sell")
    /\ []((InCycle /\ PendingRetry({"buy_error", "insufficient_usdt"}, "bought"))
            => /\ last_action # "buy"
               /\ (last_trade_price = None \/ BuyTrigger(price, last_trade_price))
                    => requested = "buy")
    /\ []((pc = "loop" /\ last_action = "buy" /\ RoomForCycle)
            => <>(last_action = "sell" \/ CycleWithoutTrade("sell")))
    /\ []((pc = "loop" /\ last_action # "buy" /\ RoomForCycle)
            => <>(last_action = "buy" \/ CycleWithoutTrade("buy")))

\* A sell failed, was requested again in a later cycle and went through.
C16_Witness ==
    /\ pc = "loop"
    /\ last_action = "sell"
    /\ \E i, j \in 1..Len(log) :
         /\ i < j
         /\ log[i].kind = "sell_error"
         /\ log[j].kind = "sold"

\* The step that ends a cycle whose executor returned a price.
Transition == pc = "finish" /\ pc' = "loop" /\ requested # "none" /\ Truthy(new_price)

\* The recorded price meets the threshold of the trade against the previous
\* trade price.
MeetsThreshold(side, recorded, previous) ==
    /\ side = "sell" => SellTrigger(recorded, previous)
    /\ (side = "buy" /\ previous # None) => BuyTrigger(recorded, previous)

\* C17 as stated: every transition records a price that meets the threshold
\* that triggered it, whatever prices the feed returns within the cycle.
C17_RecordedMeetsThreshold ==
    [][Transition => MeetsThreshold(requested, last_trade_price', last_trade_price)]_vars

\* C17 amended: every transition records the price the executor fetched
\* (line 117 before the buy order, line 143 after the sell order), and that
\* price meets the threshold when it equals the price the cycle decided on
\* (line 163).
C17_RecordedIsExecutorPrice ==
    [][Transition
         => /\ last_trade_price' = new_price
            /\ new_price \in Prices
            /\ MeetsThreshold(requested, price, last_trade_price)
            /\ new_price = price
                 => MeetsThreshold(requested, last_trade_price', last_trade_price)]_vars

\* A sell from 50000 whose executor fetched 52500, the price of the decision.
C17_Witness ==
    /\ pc = "finish"
    /\ requested = "sell"
    /\ last_trade_price = 50000
    /\ price = 52500
    /\ new_price = 52500

\* The number of status entries in the lines.
StatusCount(lines) == Cardinality({i \in 1..Len(lines) : lines[i].kind = "status"})

\* C18: the step that completes a cycle appends one status entry, the last
\* line of the log, holding the two globals as they are after the cycle; no
\* other step (an executor, an aborted cycle, startup, termination) adds a
\* status entry; and every step leaves the lines already written in place.
C18_OneStatusPerCycle ==
    /\ [][(pc = "finish" /\ pc' = "loop")
            => /\ StatusCount(log') = StatusCount(log) + 1
               /\ Len(log') = Len(log) + 1
               /\ log'[Len(log')].kind = "status"
               /\ log'[Len(log')].ltp = last_trade_price'
               /\ log'[Len(log')].action = last_action']_vars
    /\ [][~(pc = "finish" /\ pc' = "loop") => StatusCount(log') = StatusCount(log)]_vars
    /\ [][Len(log') >= Len(log) /\ SubSeq(log', 1, Len(log)) = log]_vars

\* One cycle aborted, then a cycle bought and wrote its status entry.
C18_Witness ==
    /\ pc = "loop"
    /\ last_action = "buy"
    /\ StatusCount(log) = 1
    /\ log[Len(log)] = StatusLine(last_trade_price, "buy")
    /\ \E i \in 1..Len(log) : log[i].kind = "main_loop_error"

====
